---- MODULE Spec2Model ----
(***************************************************************************)
(* A model of ESDoc.generate (src/src/ESDoc.js): the documentation         *)
(* generation pipeline, its file walk and filter, the per-file traverse,   *)
(* the synthetic index/package docs, _resolveDuplication and _publish.     *)
(***************************************************************************)
EXTENDS Integers, Sequences, FiniteSets, TLC

(***************************************************************************)
(* Bounds of the model.                                                    *)
(***************************************************************************)
\* longest doc sequence handed to _resolveDuplication on its own
MaxDocs == 3
\* most primitive calls (write/copy/read) one onPublish makes
MaxPublishOps == 2

(***************************************************************************)
(* JavaScript values used by _resolveDuplication.                          *)
(* A __docId__ is a string of decimal digits or a number; both are held as *)
(* their decimal digits, tagged with the JavaScript type.                  *)
(***************************************************************************)
IdDigits == {<<2>>, <<3>>, <<1, 0>>, <<1, 2>>}
IdTypes == {"string", "number"}
Undefined == [t |-> "undefined", v |-> <<>>]
StrId(d) == [t |-> "string", v |-> d]
NumId(d) == [t |-> "number", v |-> d]

\* ToNumber of a string of decimal digits, or the number itself.
RECURSIVE ToNumber(_)
ToNumber(d) ==
  IF d = <<>> THEN 0 ELSE 10 * ToNumber(SubSeq(d, 1, Len(d) - 1)) + d[Len(d)]

\* a < b on two strings: code unit by code unit, a proper prefix is smaller.
RECURSIVE StrLess(_, _)
StrLess(a, b) ==
  IF b = <<>> THEN FALSE
  ELSE IF a = <<>> THEN TRUE
  ELSE IF Head(a) # Head(b) THEN Head(a) < Head(b)
  ELSE StrLess(Tail(a), Tail(b))

NumLess(a, b) ==
  IF a.t = "undefined" \/ b.t = "undefined" THEN FALSE
  ELSE ToNumber(a.v) < ToNumber(b.v)

\* A comparison that takes the ids for numbers whatever their type.
JsLessNumeric(a, b) == NumLess(a, b)

\* The comparison a < b of line 247: two strings compare as strings,
\* anything else compares as numbers (undefined is NaN: never smaller).
JsLess(a, b) ==
  IF a.t = "string" /\ b.t = "string" THEN StrLess(a.v, b.v) ELSE NumLess(a, b)

\* The comparator of lines 246-248.
Comparator(a, b) == IF JsLess(a, b) THEN -1 ELSE 1

\* ids.sort(comparator): insertion of each element before the first
\* element it is ordered before.
RECURSIVE InsertSorted(_, _)
InsertSorted(x, s) ==
  IF s = <<>> THEN <<x>>
  ELSE IF Comparator(x, Head(s)) < 0 THEN <<x>> \o s
  ELSE <<Head(s)>> \o InsertSorted(x, Tail(s))

RECURSIVE SortIds(_)
SortIds(ids) ==
  IF ids = <<>> THEN <<>> ELSE InsertSorted(ids[Len(ids)], SortIds(SubSeq(ids, 1, Len(ids) - 1)))

Includes(s, x) == \E i \in 1..Len(s) : s[i] = x

IsMember(doc) == doc.kind = "member"

MapDocId(s) == [i \in 1..Len(s) |-> s[i].docId]

\* A search that knows methods only, and no accessor.
SameLongnameMethod(docs, memberDoc) ==
  \E i \in 1..Len(docs) :
    docs[i].longname = memberDoc.longname /\ docs[i].kind = "method"

\* docs.find(...) of line 237: is there a doc of another kind at the longname.
SameLongnameDoc(docs, memberDoc) ==
  \E i \in 1..Len(docs) : docs[i].longname = memberDoc.longname /\ ~IsMember(docs[i])

\* docs.filter(...) of line 243.
Dup(docs, memberDoc) ==
  LET Same(doc) == doc.longname = memberDoc.longname /\ IsMember(doc)
  IN SelectSeq(docs, Same)

\* One turn of the loop of lines 233-252: what the member adds to removeIds.
RemoveIdsOf(docs, memberDoc) ==
  IF SameLongnameDoc(docs, memberDoc) THEN <<memberDoc.docId>>
  ELSE LET dup == Dup(docs, memberDoc)
       IN IF Len(dup) > 1 THEN Tail(SortIds(MapDocId(dup))) ELSE <<>>

\* The loop of lines 233-252 over memberDocs.
RECURSIVE RemoveIds(_, _)
RemoveIds(docs, memberDocs) ==
  IF memberDocs = <<>> THEN <<>>
  ELSE RemoveIdsOf(docs, Head(memberDocs)) \o RemoveIds(docs, Tail(memberDocs))

\* ESDoc._resolveDuplication.
ResolveDuplication(docs) ==
  LET memberDocs == SelectSeq(docs, IsMember)
      removeIds == RemoveIds(docs, memberDocs)
      Kept(doc) == ~Includes(removeIds, doc.docId)
  IN SelectSeq(docs, Kept)


(***************************************************************************)
(* Strings that the filter looks into are held as sequences of tokens.     *)
(***************************************************************************)
Tokens(name) ==
  CASE name = "a.js" -> <<"a", ".js">>
    [] name = "b.config.js" -> <<"b", ".config", ".js">>
    [] name = "c.es6" -> <<"c", ".es6">>
    [] name = "d.js.map" -> <<"d", ".js", ".map">>
    [] OTHER -> <<name>>

\* path.relative(sourceDirPath, filePath): the names under the source root
\* joined by path.sep.
RECURSIVE RelativePath(_)
RelativePath(path) ==
  IF path = <<>> THEN <<>>
  ELSE IF Len(path) = 1 THEN Tokens(path[1])
  ELSE Tokens(Head(path)) \o <<"/">> \o RelativePath(Tail(path))

\* The directory tree under config.source: fs.readdirSync and fs.statSync.
ReadDir(dir) ==
  CASE dir = <<>> -> <<"a.js", "b.config.js", "lib", "sock">>
    [] dir = <<"lib">> -> <<"c.es6", "d.js.map">>
    [] OTHER -> <<>>

Stat(path) ==
  CASE path = <<"lib">> -> "directory"
    [] path = <<"sock">> -> "other"
    [] OTHER -> "file"

\* new RegExp(v) of lines 40-41: the alternatives the pattern looks for and
\* whether it is anchored at the end ($).
RegExp(v) ==
  CASE v = "\\.(js|es6)$" -> [alts |-> {<<".js">>, <<".es6">>}, atEnd |-> TRUE]
    [] v = "\\.config\\.(js|es6)$" ->
         [alts |-> {<<".config", ".js">>, <<".config", ".es6">>}, atEnd |-> TRUE]
    [] v = "\\.js" -> [alts |-> {<<".js">>}, atEnd |-> FALSE]
    [] v = "lib/" -> [alts |-> {<<"lib", "/">>}, atEnd |-> FALSE]
    [] v = "\\.map$" -> [alts |-> {<<".map">>}, atEnd |-> TRUE]
    [] OTHER -> [alts |-> {}, atEnd |-> FALSE]

\* relativeFilePath.match(reg)
Match(s, reg) ==
  \E alt \in reg.alts :
    \E i \in 1..Len(s) :
      /\ i + Len(alt) - 1 <= Len(s)
      /\ SubSeq(s, i, i + Len(alt) - 1) = alt
      /\ reg.atEnd => i + Len(alt) - 1 = Len(s)

\* Lines 62-69: some include pattern matches.
MatchInclude(rel, regs) == \E i \in 1..Len(regs) : Match(rel, regs[i])

\* Lines 71-73: some exclude pattern matches.
MatchExclude(rel, regs) == \E i \in 1..Len(regs) : Match(rel, regs[i])

\* A filter that forgets the exclude patterns.
PassesFilterIncludesOnly(path, incs, excs) ==
  MatchInclude(RelativePath(path), incs)

\* The filter of the _walk callback, lines 61-73: does the file go on to _traverse.
PassesFilter(path, incs, excs) ==
  LET rel == RelativePath(path)
  IN MatchInclude(rel, incs) /\ ~MatchExclude(rel, excs)

(***************************************************************************)
(* Configuration: a record whose absent fields are the unset ones.         *)
(***************************************************************************)
Has(c, f) == f \in DOMAIN c
With(c, f, v) == [g \in (DOMAIN c) \cup {f} |-> IF g = f THEN v ELSE c[g]]
Without(c, f) == [g \in (DOMAIN c) \ {f} |-> c[g]]
OrDefault(c, f, v) == IF Has(c, f) THEN c ELSE With(c, f, v)

DefaultIncludes == <<"\\.(js|es6)$">>
DefaultExcludes == <<"\\.config\\.(js|es6)$">>
DefaultIndex == "./README.md"
DefaultPackage == "./package.json"

\* ESDoc._setDefaultConfig
SetDefaultConfig(c) ==
  OrDefault(OrDefault(OrDefault(OrDefault(c,
    "includes", DefaultIncludes),
    "excludes", DefaultExcludes),
    "index", DefaultIndex),
    "package", DefaultPackage)

MapRegExp(vs) == [i \in 1..Len(vs) |-> RegExp(vs[i])]

\* The configurations a caller passes to generate.
Required ==
  { [source |-> "./src", destination |-> "./out"],
    [source |-> "./src"],
    [destination |-> "./out"],
    [dummy \in {} |-> ""] }

WithOptions(c) ==
  { c,
    With(c, "excludes", <<"\\.map$">>),
    With(With(With(With(c,
      "includes", <<"\\.js", "lib/">>),
      "excludes", <<"\\.map$">>),
      "index", "./MANUAL.md"),
      "package", "./pkg.json") }

CallerConfigs == UNION { WithOptions(c) : c \in Required }

\* What a plugin's onHandleConfig may return: the configuration as it is, or
\* a rewritten one.
HandleConfigReturns(c) ==
  { c, With(Without(c, "index"), "includes", <<"lib/">>) }

(***************************************************************************)
(* The state of one run of ESDoc.generate.                                 *)
(***************************************************************************)
VARIABLES
  pc,           \* the place generate has reached
  callerConfig, \* the configuration generate was called with
  fsys,         \* which of the configured documents fs.readFileSync can read
  config,       \* the local variable config
  includes,     \* the compiled include patterns (line 40)
  excludes,     \* the compiled exclude patterns (line 41)
  pkg,          \* packageName and mainFilePath (lines 43-54)
  stack,        \* the frames of _walk: the directory and its entries still to visit
  results,      \* the local variable results
  asts,         \* the local variable asts
  resolveIn,    \* the argument _resolveDuplication was called with
  calls,        \* the calls made to the plugin host, parser and loggers, in order
  outFiles,     \* the files written under the destination, and their order
  indexJson,    \* the text written to index.json
  thrown,       \* the error that left generate, if any
  exitCode,     \* the code given to process.exit, -1 while the process runs
  nOps          \* the primitive calls onPublish has made so far

vars == <<pc, callerConfig, fsys, config, includes, excludes, pkg, stack, results,
          asts, resolveIn, calls, outFiles, indexJson, thrown, exitCode, nOps>>

Call(op, arg) == [op |-> op, arg |-> arg]
Called(op) == \E i \in 1..Len(calls) : calls[i].op = op
CountCalls(op) == Cardinality({i \in 1..Len(calls) : calls[i].op = op})

\* The documents of the working directory: the index document and the manifest.
FileSystems == [index : BOOLEAN, package : BOOLEAN]

RunInit ==
  /\ config = callerConfig
  /\ includes = <<>>
  /\ excludes = <<>>
  /\ pkg = [name |-> "null", main |-> "null"]
  /\ stack = <<>>
  /\ asts = <<>>
  /\ resolveIn = <<>>
  /\ calls = <<>>
  /\ outFiles = <<>>
  /\ indexJson = <<>>
  /\ thrown = "none"
  /\ exitCode = -1
  /\ nOps = 0

\* generate(config) is called.
Init ==
  /\ pc = "assert"
  /\ callerConfig \in CallerConfigs
  /\ fsys \in FileSystems
  /\ results = <<>>
  /\ RunInit

\* An error leaves generate: nothing after the throwing statement runs.
Throw(e) ==
  /\ pc' = "aborted"
  /\ thrown' = e

\* An entry check that forgets the destination.
AssertSourceOnly ==
  /\ pc = "assert"
  /\ IF Has(config, "source")
       THEN pc' = "pluginInit" /\ thrown' = thrown
       ELSE Throw("AssertionError")
  /\ UNCHANGED <<callerConfig, fsys, config, includes, excludes, pkg, stack, results,
                 asts, resolveIn, calls, outFiles, indexJson, exitCode, nOps>>

\* Lines 29-30: assert(config.source); assert(config.destination).
AssertConfig ==
  /\ pc = "assert"
  /\ IF Has(config, "source") /\ Has(config, "destination")
       THEN pc' = "pluginInit" /\ thrown' = thrown
       ELSE Throw("AssertionError")
  /\ UNCHANGED <<callerConfig, fsys, config, includes, excludes, pkg, stack, results,
                 asts, resolveIn, calls, outFiles, indexJson, exitCode, nOps>>

\* Lines 32-33: Plugin.init(config.plugins); Plugin.onStart().
PluginStart ==
  /\ pc = "pluginInit"
  /\ calls' = calls \o <<Call("init", <<>>), Call("onStart", <<>>)>>
  /\ pc' = "handleConfig"
  /\ UNCHANGED <<callerConfig, fsys, config, includes, excludes, pkg, stack, results,
                 asts, resolveIn, outFiles, indexJson, thrown, exitCode, nOps>>

\* A hook call that fills the defaults first.
OnHandleConfigAfterDefaults ==
  /\ pc = "handleConfig"
  /\ calls' = Append(calls, Call("onHandleConfig", SetDefaultConfig(config)))
  /\ \E c \in HandleConfigReturns(SetDefaultConfig(config)) : config' = c
  /\ pc' = "setDefault"
  /\ UNCHANGED <<callerConfig, fsys, includes, excludes, pkg, stack, results,
                 asts, resolveIn, outFiles, indexJson, thrown, exitCode, nOps>>

\* Line 34: config = Plugin.onHandleConfig(config).
OnHandleConfig ==
  /\ pc = "handleConfig"
  /\ calls' = Append(calls, Call("onHandleConfig", config))
  /\ \E c \in HandleConfigReturns(config) : config' = c
  /\ pc' = "setDefault"
  /\ UNCHANGED <<callerConfig, fsys, includes, excludes, pkg, stack, results,
                 asts, resolveIn, outFiles, indexJson, thrown, exitCode, nOps>>

\* Lines 45-54: the manifest is read for the package name and main file; a
\* failure to read or parse it is ignored.
ReadPackage(c) ==
  IF Has(c, "package") /\ fsys.package
    THEN [name |-> "esdoc", main |-> "main.js"]
    ELSE [name |-> "null", main |-> "null"]

\* Lines 36-60: defaults, compiled patterns, the manifest, and the call of
\* _walk on config.source with its readdirSync.
SetDefault ==
  /\ pc = "setDefault"
  /\ config' = SetDefaultConfig(config)
  /\ includes' = MapRegExp(config'.includes)
  /\ excludes' = MapRegExp(config'.excludes)
  /\ pkg' = ReadPackage(config')
  /\ results' = <<>>
  /\ asts' = <<>>
  /\ stack' = <<[dir |-> <<>>, entries |-> ReadDir(<<>>)]>>
  /\ pc' = "walk"
  /\ UNCHANGED <<callerConfig, fsys, resolveIn, calls, outFiles, indexJson, thrown,
                 exitCode, nOps>>

(***************************************************************************)
(* _walk (lines 142-155) and its callback (lines 60-81).                   *)
(***************************************************************************)
Top == stack[Len(stack)]
EntryPath == Top.dir \o <<Head(Top.entries)>>
AtEntry(kind) ==
  /\ pc = "walk"
  /\ stack # <<>>
  /\ Top.entries # <<>>
  /\ Stat(EntryPath) = kind

\* The loop of line 145 moves to the next entry of the directory.
NextEntry == [stack EXCEPT ![Len(stack)].entries = Tail(@)]

\* Line 151-152: a directory is walked, whatever its name.
WalkDirectory ==
  /\ AtEntry("directory")
  /\ stack' = Append(NextEntry, [dir |-> EntryPath, entries |-> ReadDir(EntryPath)])
  /\ UNCHANGED <<pc, callerConfig, fsys, config, includes, excludes, pkg, results,
                 asts, resolveIn, calls, outFiles, indexJson, thrown, exitCode, nOps>>

\* Lines 149-153: an entry that is neither a file nor a directory is passed over.
WalkOther ==
  /\ AtEntry("other")
  /\ stack' = NextEntry
  /\ UNCHANGED <<pc, callerConfig, fsys, config, includes, excludes, pkg, results,
                 asts, resolveIn, calls, outFiles, indexJson, thrown, exitCode, nOps>>

\* The loop of line 145 ends: _walk returns to its caller, and the outermost
\* _walk returns to generate (line 81).
WalkReturn ==
  /\ pc = "walk"
  /\ stack # <<>>
  /\ Top.entries = <<>>
  /\ stack' = SubSeq(stack, 1, Len(stack) - 1)
  /\ pc' = IF Len(stack) = 1 THEN "index" ELSE "walk"
  /\ UNCHANGED <<callerConfig, fsys, config, includes, excludes, pkg, results,
                 asts, resolveIn, calls, outFiles, indexJson, thrown, exitCode, nOps>>

\* Lines 61-73: the callback returns early on a file the filter rejects.
VisitRejected ==
  /\ AtEntry("file")
  /\ ~PassesFilter(EntryPath, includes, excludes)
  /\ stack' = NextEntry
  /\ UNCHANGED <<pc, callerConfig, fsys, config, includes, excludes, pkg, results,
                 asts, resolveIn, calls, outFiles, indexJson, thrown, exitCode, nOps>>

\* A _traverse that lets the parser's error through.
TraverseParseErrorRethrows ==
  /\ AtEntry("file")
  /\ PassesFilter(EntryPath, includes, excludes)
  /\ calls' = calls \o <<Call("parse", EntryPath), Call("showFile", EntryPath)>>
  /\ Throw("ParseError")
  /\ UNCHANGED <<callerConfig, fsys, config, includes, excludes, pkg, stack, results,
                 asts, resolveIn, outFiles, indexJson, exitCode, nOps>>

\* Lines 172-176: ESParser.parse throws; the file is logged and _traverse
\* returns null, and the callback returns at line 77.
TraverseParseError ==
  /\ AtEntry("file")
  /\ PassesFilter(EntryPath, includes, excludes)
  /\ calls' = calls \o <<Call("parse", EntryPath), Call("showFile", EntryPath)>>
  /\ stack' = NextEntry
  /\ UNCHANGED <<pc, callerConfig, fsys, config, includes, excludes, pkg, results,
                 asts, resolveIn, outFiles, indexJson, thrown, exitCode, nOps>>

\* A _traverse that logs the node and goes on without the file.
TraverseExtractErrorSwallowed ==
  /\ AtEntry("file")
  /\ PassesFilter(EntryPath, includes, excludes)
  /\ calls' = calls \o <<Call("parse", EntryPath), Call("show", EntryPath)>>
  /\ stack' = NextEntry
  /\ UNCHANGED <<pc, callerConfig, fsys, config, includes, excludes, pkg, results,
                 asts, resolveIn, outFiles, indexJson, thrown, exitCode, nOps>>

\* Lines 181-188: factory.push throws on a node; the node is logged and the
\* error thrown again, through ASTUtil.traverse, the callback and _walk.
TraverseExtractError ==
  /\ AtEntry("file")
  /\ PassesFilter(EntryPath, includes, excludes)
  /\ calls' = calls \o <<Call("parse", EntryPath), Call("show", EntryPath)>>
  /\ Throw("ExtractError")
  /\ UNCHANGED <<callerConfig, fsys, config, includes, excludes, pkg, stack, results,
                 asts, resolveIn, outFiles, indexJson, exitCode, nOps>>

\* n as its decimal digits.
RECURSIVE ToDigits(_)
ToDigits(n) == IF n < 10 THEN <<n>> ELSE ToDigits(n \div 10) \o <<n % 10>>

\* factory.results of one file: no doc, or one doc of the class property X,
\* as a member or as a method. __docId__ counts the docs created in the run.
FactoryKinds == {<<>>, <<"member">>, <<"method">>}
FactoryResults(kinds, made) ==
  [i \in 1..Len(kinds) |->
    [kind |-> kinds[i], longname |-> "X", name |-> "X", content |-> "",
     docId |-> NumId(ToDigits(made + i))]]

SourcePath(path) == <<"source">> \o path

\* Lines 76-80 with lines 178-190: the file parses and every node is pushed;
\* its docs and its syntax tree are kept.
TraverseOk ==
  /\ AtEntry("file")
  /\ PassesFilter(EntryPath, includes, excludes)
  /\ calls' = Append(calls, Call("parse", EntryPath))
  /\ \E kinds \in FactoryKinds :
       results' = results \o FactoryResults(kinds, Len(results))
  /\ asts' = Append(asts, [filePath |-> SourcePath(EntryPath), ast |-> EntryPath])
  /\ stack' = NextEntry
  /\ UNCHANGED <<pc, callerConfig, fsys, config, includes, excludes, pkg,
                 resolveIn, outFiles, indexJson, thrown, exitCode, nOps>>

(***************************************************************************)
(* The synthetic docs (lines 83-91, 193-227).                              *)
(***************************************************************************)
\* path.resolve of a configured document.
PathResolve(p) ==
  CASE p = "./README.md" -> "/cwd/README.md"
    [] p = "./MANUAL.md" -> "/cwd/MANUAL.md"
    [] p = "./package.json" -> "/cwd/package.json"
    [] p = "./pkg.json" -> "/cwd/pkg.json"
    [] OTHER -> p

\* path.basename of a resolved manifest path.
Basename(p) ==
  CASE p = "/cwd/package.json" -> "package.json"
    [] p = "/cwd/pkg.json" -> "pkg.json"
    [] OTHER -> p

\* ESDoc._generateForIndex, when fs.readFileSync returns the text.
IndexTag(c) ==
  [kind |-> "index", content |-> "index text", longname |-> PathResolve(c.index),
   name |-> c.index, docId |-> Undefined]

\* ESDoc._generateForPackageJSON: a manifest that cannot be read leaves the
\* content and the path empty.
PackageTag(c) ==
  LET packageJSON == IF fsys.package THEN "manifest text" ELSE ""
      packagePath == IF fsys.package THEN PathResolve(c.package) ELSE ""
  IN [kind |-> "packageJSON", content |-> packageJSON, longname |-> packagePath,
      name |-> Basename(packagePath), docId |-> Undefined]

\* Lines 84-86: results.push(this._generateForIndex(config)). The read of
\* line 194 is not guarded: an index document that cannot be read throws.
GenerateForIndex ==
  /\ pc = "index"
  /\ IF ~Has(config, "index")
       THEN pc' = "package" /\ UNCHANGED <<results, thrown>>
     ELSE IF fsys.index
       THEN pc' = "package" /\ results' = Append(results, IndexTag(config))
                            /\ thrown' = thrown
     ELSE Throw("ENOENT") /\ results' = results
  /\ UNCHANGED <<callerConfig, fsys, config, includes, excludes, pkg, stack,
                 asts, resolveIn, calls, outFiles, indexJson, exitCode, nOps>>

\* Lines 89-91: results.push(this._generateForPackageJSON(config)).
GenerateForPackageJSON ==
  /\ pc = "package"
  /\ results' = IF Has(config, "package") THEN Append(results, PackageTag(config))
                ELSE results
  /\ pc' = "resolve"
  /\ UNCHANGED <<callerConfig, fsys, config, includes, excludes, pkg, stack,
                 asts, resolveIn, calls, outFiles, indexJson, thrown, exitCode, nOps>>

\* Line 93: results = this._resolveDuplication(results).
ResolveStep ==
  /\ pc = "resolve"
  /\ resolveIn' = results
  /\ results' = ResolveDuplication(results)
  /\ pc' = "handleDocs"
  /\ UNCHANGED <<callerConfig, fsys, config, includes, excludes, pkg, stack,
                 asts, calls, outFiles, indexJson, thrown, exitCode, nOps>>

\* What a plugin's onHandleDocs may return: the docs as they are, or without
\* the manifest doc.
HandleDocsReturns(docs) ==
  LET NotManifest(doc) == doc.kind # "packageJSON"
  IN {docs, SelectSeq(docs, NotManifest)}

\* Line 95: results = Plugin.onHandleDocs(results).
OnHandleDocs ==
  /\ pc = "handleDocs"
  /\ calls' = Append(calls, Call("onHandleDocs", results))
  /\ \E docs \in HandleDocsReturns(results) : results' = docs
  /\ pc' = "writeIndex"
  /\ UNCHANGED <<callerConfig, fsys, config, includes, excludes, pkg, stack,
                 asts, resolveIn, outFiles, indexJson, thrown, exitCode, nOps>>

(***************************************************************************)
(* The artifacts (lines 97-108), _publish (lines 257-283) and onComplete.  *)
(***************************************************************************)
\* JSON.stringify of the docs: a property whose value is undefined is left out.
StringifyDoc(doc) ==
  IF doc.docId = Undefined THEN [f \in (DOMAIN doc) \ {"docId"} |-> doc[f]] ELSE doc
Stringify(docs) == [i \in 1..Len(docs) |-> StringifyDoc(docs[i])]

\* path.resolve(config.destination, ...)
IndexJsonPath == <<config.destination, "index.json">>
AstPath(ast) == <<config.destination, "ast">> \o ast.filePath \o <<".json">>
PublishPath(f) == <<config.destination, f>>

\* An index.json written from the docs as they were before onHandleDocs.
WriteIndexJsonBeforeHook ==
  /\ pc = "writeIndex"
  /\ indexJson' = Stringify(ResolveDuplication(resolveIn))
  /\ calls' = Append(calls, Call("outputFileSync", IndexJsonPath))
  /\ outFiles' = Append(outFiles, IndexJsonPath)
  /\ pc' = "writeAst"
  /\ UNCHANGED <<callerConfig, fsys, config, includes, excludes, pkg, stack, results,
                 asts, resolveIn, thrown, exitCode, nOps>>

\* Lines 98-101: index.json.
WriteIndexJson ==
  /\ pc = "writeIndex"
  /\ indexJson' = Stringify(results)
  /\ calls' = Append(calls, Call("outputFileSync", IndexJsonPath))
  /\ outFiles' = Append(outFiles, IndexJsonPath)
  /\ pc' = "writeAst"
  /\ UNCHANGED <<callerConfig, fsys, config, includes, excludes, pkg, stack, results,
                 asts, resolveIn, thrown, exitCode, nOps>>

\* Lines 104-108: one file for each syntax tree.
WriteAsts ==
  /\ pc = "writeAst"
  /\ calls' = calls \o [i \in 1..Len(asts) |-> Call("outputFileSync", AstPath(asts[i]))]
  /\ outFiles' = outFiles \o [i \in 1..Len(asts) |-> AstPath(asts[i])]
  /\ pc' = "publish"
  /\ UNCHANGED <<callerConfig, fsys, config, includes, excludes, pkg, stack, results,
                 asts, resolveIn, indexJson, thrown, exitCode, nOps>>

\* Lines 258-278: _publish calls Plugin.onPublish(write, copy, read).
PublishBegin ==
  /\ pc = "publish"
  /\ calls' = Append(calls, Call("onPublish", <<>>))
  /\ pc' = "inPublish"
  /\ UNCHANGED <<callerConfig, fsys, config, includes, excludes, pkg, stack, results,
                 asts, resolveIn, outFiles, indexJson, thrown, exitCode, nOps>>

\* A catch that logs the error and lets generate go on.
PublishCatchNoExit(log, cause) ==
  /\ calls' = Append(log, Call("showError", <<cause>>))
  /\ exitCode' = exitCode
  /\ pc' = "complete"

\* Lines 279-282: the error is logged and the process exits with code 1.
PublishCatch(log, cause) ==
  /\ calls' = log \o <<Call("showError", <<cause>>), Call("exit", <<>>)>>
  /\ exitCode' = 1
  /\ pc' = "exited"

\* The plugin goes on after a primitive returned.
PublishGoesOn ==
  /\ nOps' = nOps + 1
  /\ pc' = pc
  /\ exitCode' = exitCode

InPublish == pc = "inPublish" /\ nOps < MaxPublishOps

\* Lines 259-265: write. Plugin.onHandleContent or fs.outputFileSync may throw.
PublishWrite ==
  /\ InPublish
  /\ LET path == PublishPath("index.html")
         hook == Append(calls, Call("onHandleContent", path))
         log == Append(hook, Call("outputFileSync", path))
     IN \E outcome \in {"written", "onHandleContent throws", "outputFileSync throws"} :
          IF outcome = "written"
            THEN calls' = log /\ outFiles' = Append(outFiles, path) /\ PublishGoesOn
          ELSE IF outcome = "onHandleContent throws"
            THEN PublishCatch(hook, outcome) /\ UNCHANGED <<outFiles, nOps>>
          ELSE PublishCatch(log, outcome) /\ UNCHANGED <<outFiles, nOps>>
  /\ UNCHANGED <<callerConfig, fsys, config, includes, excludes, pkg, stack, results,
                 asts, resolveIn, indexJson, thrown>>

\* Lines 267-271: copy. fs.copySync may throw.
PublishCopy ==
  /\ InPublish
  /\ \E outcome \in {"copied", "copySync throws"} :
       IF outcome = "copied"
         THEN /\ outFiles' = Append(outFiles, PublishPath("css"))
              /\ calls' = calls
              /\ PublishGoesOn
         ELSE PublishCatch(calls, outcome) /\ UNCHANGED <<outFiles, nOps>>
  /\ UNCHANGED <<callerConfig, fsys, config, includes, excludes, pkg, stack, results,
                 asts, resolveIn, indexJson, thrown>>

\* Lines 273-276: read. fs.readFileSync throws on a file that was not written.
PublishRead ==
  /\ InPublish
  /\ \E f \in {"index.json", "index.html"} :
       IF Includes(outFiles, PublishPath(f))
         THEN calls' = calls /\ PublishGoesOn
         ELSE PublishCatch(calls, "readFileSync throws") /\ nOps' = nOps
  /\ UNCHANGED <<callerConfig, fsys, config, includes, excludes, pkg, stack, results,
                 asts, resolveIn, outFiles, indexJson, thrown>>

\* The plugin's onPublish itself throws.
PublishThrow ==
  /\ pc = "inPublish"
  /\ PublishCatch(calls, "onPublish throws")
  /\ UNCHANGED <<callerConfig, fsys, config, includes, excludes, pkg, stack, results,
                 asts, resolveIn, outFiles, indexJson, thrown, nOps>>

\* Plugin.onPublish returns, and _publish with it.
PublishReturn ==
  /\ pc = "inPublish"
  /\ pc' = "complete"
  /\ UNCHANGED <<callerConfig, fsys, config, includes, excludes, pkg, stack, results,
                 asts, resolveIn, calls, outFiles, indexJson, thrown, exitCode, nOps>>

\* Line 113: Plugin.onComplete().
OnComplete ==
  /\ pc = "complete"
  /\ calls' = Append(calls, Call("onComplete", <<>>))
  /\ pc' = "done"
  /\ UNCHANGED <<callerConfig, fsys, config, includes, excludes, pkg, stack, results,
                 asts, resolveIn, outFiles, indexJson, thrown, exitCode, nOps>>

Next ==
  \/ AssertConfig
  \/ PluginStart
  \/ OnHandleConfig
  \/ SetDefault
  \/ WalkDirectory
  \/ WalkOther
  \/ WalkReturn
  \/ VisitRejected
  \/ TraverseParseError
  \/ TraverseExtractError
  \/ TraverseOk
  \/ GenerateForIndex
  \/ GenerateForPackageJSON
  \/ ResolveStep
  \/ OnHandleDocs
  \/ WriteIndexJson
  \/ WriteAsts
  \/ PublishBegin
  \/ PublishWrite
  \/ PublishCopy
  \/ PublishRead
  \/ PublishThrow
  \/ PublishReturn
  \/ OnComplete

Spec == Init /\ [][Next]_vars

(***************************************************************************)
(* _resolveDuplication on its own: every doc sequence of up to MaxDocs     *)
(* docs with distinct ids of one type.                                     *)
(***************************************************************************)
Kinds == {"member", "method", "get"}
Longnames == {"X", "Y"}

DistinctIds(n) ==
  {d \in [1..n -> IdDigits] : \A i, j \in 1..n : i # j => d[i] # d[j]}

DocsOfLen(n) ==
  { [i \in 1..n |->
      [kind |-> k[i], longname |-> l[i], name |-> l[i], content |-> "",
       docId |-> [t |-> t, v |-> d[i]]]] :
    k \in [1..n -> Kinds], l \in [1..n -> Longnames], d \in DistinctIds(n),
    t \in IdTypes }

InitResolve ==
  /\ pc = "resolve"
  /\ callerConfig = [source |-> "./src", destination |-> "./out"]
  /\ fsys = [index |-> TRUE, package |-> TRUE]
  /\ \E n \in 0..MaxDocs : results \in DocsOfLen(n)
  /\ RunInit

NextResolve == ResolveStep

SpecResolve == InitResolve /\ [][NextResolve]_vars

(***************************************************************************)
(* Properties of _resolveDuplication, checked under SpecResolve.           *)
(***************************************************************************)
Resolved == pc = "handleDocs"

PairwiseDistinctIds(docs) ==
  \A i, j \in 1..Len(docs) : i # j => docs[i].docId # docs[j].docId

NonMemberAt(docs, longname) ==
  \E j \in 1..Len(docs) : docs[j].longname = longname /\ docs[j].kind # "member"

MembersAt(docs, longname) ==
  {i \in 1..Len(docs) : docs[i].longname = longname /\ docs[i].kind = "member"}

SurvivingMembersAt(longname) ==
  LET There(doc) == doc.longname = longname /\ doc.kind = "member"
  IN SelectSeq(results, There)

OtherKinds(docs) ==
  LET Other(doc) == doc.kind # "member"
  IN SelectSeq(docs, Other)

\* C1: after _resolveDuplication of docs with pairwise-distinct ids, no
\* surviving member doc has the longname of a doc of another kind of the
\* input, and every doc of another kind is retained, in its order.
C1_MemberYieldsToOtherKind ==
  (Resolved /\ PairwiseDistinctIds(resolveIn)) =>
    /\ \A i \in 1..Len(results) :
         results[i].kind = "member" => ~NonMemberAt(resolveIn, results[i].longname)
    /\ OtherKinds(results) = OtherKinds(resolveIn)

\* One member and one accessor or method at one longname: the other kind alone is left.
C1_Witness ==
  /\ Resolved
  /\ Len(resolveIn) = 2
  /\ resolveIn[1].kind = "member"
  /\ resolveIn[2].kind = "get"
  /\ resolveIn[1].longname = resolveIn[2].longname
  /\ results = <<resolveIn[2]>>

\* C2: of two or more member docs that share a longname, have string ids
\* and no doc of another kind at the longname, exactly the one with the
\* smallest id in string order is retained; and no two surviving member
\* docs share a longname.
C2_SmallestStringIdSurvives ==
  Resolved =>
    /\ \A ln \in Longnames :
         LET group == MembersAt(resolveIn, ln)
         IN ( /\ Cardinality(group) >= 2
              /\ ~NonMemberAt(resolveIn, ln)
              /\ \A i \in group : resolveIn[i].docId.t = "string" )
            => \E i \in group :
                 /\ \A j \in group \ {i} :
                      StrLess(resolveIn[i].docId.v, resolveIn[j].docId.v)
                 /\ SurvivingMembersAt(ln) = <<resolveIn[i]>>
    /\ \A i, j \in 1..Len(results) :
         (i # j /\ results[i].kind = "member" /\ results[j].kind = "member")
           => results[i].longname # results[j].longname

\* The ids "2", "10", "3" at one longname: "10" is the survivor.
C2_Witness ==
  /\ Resolved
  /\ Len(resolveIn) = 3
  /\ \A i \in 1..3 : resolveIn[i].kind = "member" /\ resolveIn[i].longname = "Y"
  /\ resolveIn[1].docId = StrId(<<2>>)
  /\ resolveIn[2].docId = StrId(<<1, 0>>)
  /\ resolveIn[3].docId = StrId(<<3>>)
  /\ results = <<resolveIn[2]>>

(***************************************************************************)
(* Properties of generate, checked under Spec.                             *)
(***************************************************************************)
Entries(dir) == {dir \o <<ReadDir(dir)[i]>> : i \in 1..Len(ReadDir(dir))}
TopEntries == Entries(<<>>)
SubEntries == UNION {Entries(d) : d \in {e \in TopEntries : Stat(e) = "directory"}}
SourceFiles == {e \in TopEntries \cup SubEntries : Stat(e) = "file"}

Positions(op) == {i \in 1..Len(calls) : calls[i].op = op}
Idx(op) == CHOOSE i \in 1..Len(calls) : calls[i].op = op
CalledWith(op, arg) == \E i \in Positions(op) : calls[i].arg = arg
Parsed(file) == CalledWith("parse", file)
ParseFailed(file) == CalledWith("showFile", file)

MatchesSome(rel, regs) == \E i \in 1..Len(regs) : Match(rel, regs[i])
Candidate(file) ==
  /\ MatchesSome(RelativePath(file), includes)
  /\ ~MatchesSome(RelativePath(file), excludes)

BeforeWalk == pc \in {"assert", "pluginInit", "handleConfig", "setDefault"}
\* _walk has returned to generate.
WalkFinished ==
  /\ ~BeforeWalk
  /\ pc # "walk"
  /\ thrown \notin {"AssertionError", "ExtractError", "ParseError"}

AstFile(file) == [filePath |-> SourcePath(file), ast |-> file]

\* A step in which the parser failed on a file.
ParseFailureStep ==
  /\ Len(calls') = Len(calls) + 2
  /\ calls'[Len(calls')].op = "showFile"

\* C3: a file that fails to parse is skipped and the run goes on: the step
\* adds no doc and no syntax tree and moves to the next entry; every
\* candidate file is parsed by the time _walk has returned; a run that ends
\* in an error after a parse failure ends for another reason; and a run that
\* completes has written index.json and no artifact for the failed file.
C3_ParseFailureIsSkipped ==
  /\ [][ParseFailureStep =>
          /\ pc' = "walk"
          /\ thrown' = "none"
          /\ results' = results
          /\ asts' = asts
          /\ stack' = NextEntry]_vars
  /\ [](\A i \in 1..Len(asts) : ~ParseFailed(asts[i].ast))
  /\ [](WalkFinished => \A f \in SourceFiles : Candidate(f) => Parsed(f))
  /\ []((Called("showFile") /\ pc = "aborted") => (Called("show") \/ ~fsys.index))
  /\ []((Called("showFile") /\ pc = "done") =>
          /\ Includes(outFiles, IndexJsonPath)
          /\ \A f \in SourceFiles :
               ParseFailed(f) => ~Includes(outFiles, AstPath(AstFile(f))))

\* a.js fails to parse, lib/c.es6 is extracted after it and the run completes.
C3_Witness ==
  /\ pc = "done"
  /\ ParseFailed(<<"a.js">>)
  /\ Parsed(<<"lib", "c.es6">>)
  /\ ~ParseFailed(<<"lib", "c.es6">>)
  /\ Len(asts) = 1
  /\ Len(indexJson) >= 2
  /\ Includes(outFiles, IndexJsonPath)

\* C4: a file under the source root is passed to _traverse if and only if
\* its relative path matches some include pattern and no exclude pattern;
\* the files of a directory are reached whatever the directory's name.
C4_FilterDecidesTraverse ==
  /\ \A i \in Positions("parse") :
       calls[i].arg \in SourceFiles /\ Candidate(calls[i].arg)
  /\ WalkFinished => \A f \in SourceFiles : Candidate(f) => Parsed(f)

\* The default patterns: a.js and lib/c.es6 are passed on, b.config.js is
\* excluded, lib/d.js.map matches no include; lib itself matches none.
C4_Witness ==
  /\ pc = "index"
  /\ config.includes = DefaultIncludes
  /\ config.excludes = DefaultExcludes
  /\ Parsed(<<"a.js">>)
  /\ Parsed(<<"lib", "c.es6">>)
  /\ ~Parsed(<<"b.config.js">>)
  /\ ~Parsed(<<"lib", "d.js.map">>)
  /\ ~MatchesSome(RelativePath(<<"lib">>), includes)

\* C5: when source or destination is absent, generate fails at once: no
\* plugin is initialised, no hook invoked, nothing read and nothing written.
C5_MissingRequiredFailsFirst ==
  ({"source", "destination"} \ DOMAIN callerConfig # {}) =>
    /\ pc \in {"assert", "aborted"}
    /\ pc = "aborted" => thrown = "AssertionError"
    /\ calls = <<>>
    /\ outFiles = <<>>
    /\ stack = <<>>
    /\ pkg = [name |-> "null", main |-> "null"]
    /\ config = callerConfig

\* A configuration with a source and no destination has failed.
C5_Witness ==
  /\ pc = "aborted"
  /\ thrown = "AssertionError"
  /\ Has(callerConfig, "source")
  /\ ~Has(callerConfig, "destination")

Optional == {"includes", "excludes", "index", "package"}
DefaultOf(f) ==
  CASE f = "includes" -> DefaultIncludes
    [] f = "excludes" -> DefaultExcludes
    [] f = "index" -> DefaultIndex
    [] f = "package" -> DefaultPackage

\* C6 as claimed: the configuration passed to onHandleConfig has includes,
\* excludes, index and package populated.
C6_HookSeesDefaults ==
  \A i \in Positions("onHandleConfig") : Optional \subseteq DOMAIN calls[i].arg

\* C6 as amended: onHandleConfig is passed the caller's configuration as it
\* is, before the defaults; the defaults are then filled into what the hook
\* returned, where it is unset; that configuration does not change again and
\* is the one the filter, the index doc and the written paths use.
C6_DefaultsFilledAfterHook ==
  /\ [](\A i \in Positions("onHandleConfig") : calls[i].arg = callerConfig)
  /\ [][pc = "setDefault" =>
          /\ DOMAIN config' = DOMAIN config \cup Optional
          /\ \A f \in DOMAIN config : config'[f] = config[f]
          /\ \A f \in Optional \ DOMAIN config : config'[f] = DefaultOf(f)]_vars
  /\ [][pc \notin {"handleConfig", "setDefault"} => config' = config]_vars
  /\ [](pc = "walk" =>
          /\ includes = MapRegExp(config.includes)
          /\ excludes = MapRegExp(config.excludes))
  /\ [](\A i \in 1..Len(results) :
          results[i].kind = "index" => results[i].name = config.index)
  /\ [](\A i \in 1..Len(outFiles) : outFiles[i][1] = config.destination)

\* The caller set an index and no includes; the hook dropped the index and
\* set includes; the index is the default one and the includes the hook's.
C6_Witness ==
  /\ pc = "package"
  /\ Has(callerConfig, "index")
  /\ callerConfig.index = "./MANUAL.md"
  /\ \E i \in Positions("onHandleConfig") : calls[i].arg.index = "./MANUAL.md"
  /\ config.index = DefaultIndex
  /\ config.includes = <<"lib/">>
  /\ results[Len(results)].name = DefaultIndex

\* C7 as claimed: an index document that cannot be read yields an index doc
\* with empty content, and the run goes on.
C7_UnreadableIndexYieldsEmptyDoc ==
  (~fsys.index /\ WalkFinished /\ pc # "index") =>
    /\ thrown = "none"
    /\ pc = "package" =>
         /\ results # <<>>
         /\ results[Len(results)].kind = "index"
         /\ results[Len(results)].content = ""

Last(s) == s[Len(s)]

\* C8: once the extractor has raised on a node, generate is left by that
\* error: the logged node is the last thing the run did, no doc list is
\* resolved or handed to onHandleDocs, nothing is written, and onPublish and
\* onComplete are not invoked.
C8_ExtractErrorAborts ==
  Called("show") =>
    /\ pc = "aborted"
    /\ thrown = "ExtractError"
    /\ Last(calls).op = "show"
    /\ CountCalls("show") = 1
    /\ resolveIn = <<>>
    /\ outFiles = <<>>
    /\ indexJson = <<>>
    /\ ~Called("onHandleDocs")
    /\ ~Called("outputFileSync")
    /\ ~Called("onPublish")
    /\ ~Called("onComplete")

\* The extractor raises on a.js after nothing else: lib/c.es6, a candidate,
\* is never parsed.
C8_Witness ==
  /\ Called("show")
  /\ CalledWith("show", <<"a.js">>)
  /\ Candidate(<<"lib", "c.es6">>)
  /\ ~Parsed(<<"lib", "c.es6">>)
  /\ pc = "aborted"

\* C9: an error raised inside onPublish is logged and the process exits with
\* code 1, after index.json and every syntax tree were written and without
\* onComplete; and the process exits in no other way.
C9_PublishErrorExits ==
  /\ Called("showError") =>
       /\ pc = "exited"
       /\ exitCode = 1
       /\ Called("onPublish")
       /\ calls[Len(calls) - 1].op = "showError"
       /\ Last(calls).op = "exit"
       /\ ~Called("onComplete")
       /\ Includes(outFiles, IndexJsonPath)
       /\ \A i \in 1..Len(asts) : Includes(outFiles, AstPath(asts[i]))
  /\ (pc = "exited" \/ exitCode # -1) => Called("showError")

\* onHandleContent throws during the second write of a run with a syntax tree.
C9_Witness ==
  /\ pc = "exited"
  /\ CalledWith("showError", <<"onHandleContent throws">>)
  /\ CountCalls("onHandleContent") = 2
  /\ Len(asts) >= 1

HookOps == {"init", "onStart", "onHandleConfig", "onHandleDocs", "onPublish", "onComplete"}

\* C10: a run that completes has gone, once each and in this order, through
\* onStart, onHandleConfig, the extraction of every candidate file, the
\* append of the index doc then the package doc, the duplicate resolution,
\* onHandleDocs, the write of index.json from what onHandleDocs returned,
\* the write of every syntax tree, onPublish and onComplete.
C10_StageOrder ==
  pc = "done" =>
    LET h == Idx("onHandleDocs")
        n == Len(resolveIn)
    IN /\ \A op \in HookOps : CountCalls(op) = 1
       /\ Idx("init") = 1
       /\ Idx("onStart") = 2
       /\ Idx("onHandleConfig") = 3
       /\ \A i \in Positions("parse") \cup Positions("showFile") : 3 < i /\ i < h
       /\ \A i \in 4..(h - 1) : calls[i].op \in {"parse", "showFile"}
       /\ \A f \in SourceFiles :
            Candidate(f) =>
              Cardinality({i \in Positions("parse") : calls[i].arg = f}) = 1
       /\ n >= 2
       /\ resolveIn[n - 1].kind = "index"
       /\ resolveIn[n].kind = "packageJSON"
       /\ \A i \in 1..(n - 2) : resolveIn[i].kind \notin {"index", "packageJSON"}
       /\ calls[h].arg = ResolveDuplication(resolveIn)
       /\ results \in HandleDocsReturns(calls[h].arg)
       /\ indexJson = Stringify(results)
       /\ calls[h + 1] = Call("outputFileSync", IndexJsonPath)
       /\ \A k \in 1..Len(asts) :
            calls[h + 1 + k] = Call("outputFileSync", AstPath(asts[k]))
       /\ Idx("onPublish") = h + 2 + Len(asts)
       /\ Idx("onComplete") = Len(calls)

\* A completed run with two syntax trees, a member dropped by the
\* resolution and a doc list rewritten by onHandleDocs.
C10_Witness ==
  /\ pc = "done"
  /\ Len(asts) = 2
  /\ Len(calls[Idx("onHandleDocs")].arg) < Len(resolveIn)
  /\ results # calls[Idx("onHandleDocs")].arg
  /\ Len(indexJson) = Len(results)

====
